---- MODULE Spec2Model ----
(***************************************************************************)
(* dd_backup: the backup orchestration and retention engine.               *)
(*                                                                         *)
(* One destination filesystem (a backup group) and its configured devices. *)
(* A pass is one invocation of the program for the group: Backups::new     *)
(* resolves the filesystem, Backups::run unmounts, checks, mounts, runs    *)
(* Backup::run for every device and unmounts.  The destination directory   *)
(* and the mount state of the operating system persist between passes.     *)
(*                                                                         *)
(* Strings are sequences of one-character strings, so that str::contains   *)
(* and str::replace are computed as the code computes them.  Option<T> is  *)
(* a sequence of length 0 (None) or 1 (Some).                              *)
(***************************************************************************)
EXTENDS Integers, Sequences, FiniteSets, TLC

(***************************************************************************)
(* Bounds of the model                                                     *)
(***************************************************************************)
\* days the calendar can reach (current_date() takes the values 1..MaxDay)
MaxDay == 2
\* files the destination directory can hold before the first pass
MaxInitFiles == 2
\* width in bits of the model's stand-in for u64 / i64
Width == 3

None == <<>>
Some(x) == <<x>>

(***************************************************************************)
(* String helpers: str::replace, [String]::join, str::contains             *)
(***************************************************************************)
Replace(s, from, to) == [i \in 1..Len(s) |-> IF s[i] = from THEN to ELSE s[i]]

RECURSIVE Join(_, _)
Join(parts, sep) ==
    IF Len(parts) = 0 THEN <<>>
    ELSE IF Len(parts) = 1 THEN parts[1]
    ELSE parts[1] \o sep \o Join(Tail(parts), sep)

\* filter_map(|x| x) over a vector of options
RECURSIVE FilterMap(_)
FilterMap(opts) ==
    IF Len(opts) = 0 THEN <<>>
    ELSE opts[1] \o FilterMap(Tail(opts))

\* str::contains: p occurs in s as a contiguous substring
Contains(s, p) ==
    \E i \in 0..(Len(s) - Len(p)) : SubSeq(s, i + 1, i + Len(p)) = p

(***************************************************************************)
(* The group's configured devices, as resolved by Device::new.  The model  *)
(* of the second device holds a space, and the suffix of the first device  *)
(* ("7.img") occurs inside the suffix of the second ("S-X_77.img").        *)
(***************************************************************************)
backup_devices ==
    << [name |-> <<"a">>, model |-> None,                     serial |-> Some(<<"7">>)],
       [name |-> <<"b">>, model |-> Some(<<"S", " ", "X">>),  serial |-> Some(<<"7", "7">>)] >>

DevIds == 1..Len(backup_devices)

\* utils::current_date(): the date string of a day; days before the first
\* pass are "Y" (older) and "Z"
DateChars == <<"Y", "Z", "1", "2", "3", "4", "5", "6", "7", "8", "9">>
OldDays == {-1, 0}
current_date(d) == <<"D", DateChars[d + 2]>>

\* Backup::suffix_file_name_pattern
suffix_file_name_pattern(dev) ==
    Replace(Join(FilterMap(<<dev.model, dev.serial>>), <<"_">>), " ", "-")
        \o <<".", "i", "m", "g">>

\* Backup::file_name on the day d
file_name(dev, d) ==
    current_date(d) \o <<"_">> \o dev.name \o <<"_">>
        \o Replace(suffix_file_name_pattern(dev), " ", "-")

\* the suffix pattern of every configured device, and the name of its file
\* of every day
Suffix == [d \in DevIds |-> suffix_file_name_pattern(backup_devices[d])]
FileName ==
    [d \in DevIds, t \in (OldDays \cup (1..MaxDay)) |-> file_name(backup_devices[d], t)]

(***************************************************************************)
(* State                                                                   *)
(***************************************************************************)
VARIABLES
    day,         \* the calendar day, what current_date() reports
    dir,         \* the destination directory as read_dir lists it
    copies,      \* Device::copies of every configured device
    mounted,     \* where the operating system has the filesystem mounted
    uuid,        \* BackupConfig::uuid of the group
    available_filesystems,  \* Lsblk::available_filesystems of the pass
    dst_filesystem,  \* Backups::dst_filesystem, what Filesystem::new returned
    dry,         \* BackupArgs::dry of the running pass
    skip_mount,  \* BackupConfig::skip_mount, which Backups::new copies
    skip_fsck,   \* BackupConfig::skip_fsck, which Filesystem::new copies
    pc,          \* the position of the pass inside Backups::run
    idx,         \* the device the loop of Backups::run is at
    ret,         \* how the latest pass ended
    trace,       \* the calls Backups::run has made in this pass, in order
    last,        \* what the latest call of Backup::run did
    okToday,     \* the devices whose Backup::run returned Ok today, not dry
    plan,        \* the Config a function under check is given
    available_devices,  \* Lsblk::available_devices a function is given
    destination_path,   \* BackupConfig::destination_path a function is given
    returned     \* what the function under check returned

vars == << day, dir, copies, mounted, uuid, available_filesystems,
           dst_filesystem, dry, skip_mount, skip_fsck, pc, idx, ret, trace, last,
           okToday, plan, available_devices, destination_path, returned >>

\* the variables of a pass, and those of the functions checked on their own
pass_vars == << day, dir, copies, mounted, dst_filesystem, dry, skip_mount, idx,
                trace, last, okToday >>
function_vars == << plan, available_devices, destination_path, returned >>

\* Filesystem::blockdevice.mountpoint of the resolved filesystem: the mount
\* point the program tracks
mountpoint == dst_filesystem[1].blockdevice.mountpoint

\* std::time::UNIX_EPOCH
UNIX_EPOCH == 0

\* the key delete_oldest_backup sorts a directory entry by
CreatedKey(entry) ==
    IF entry.created = None THEN UNIX_EPOCH ELSE entry.created[1]

\* the names of a listing
Names(listing) == [i \in 1..Len(listing) |-> listing[i].name]

(***************************************************************************)
(* Filesystem: the destination directory                                   *)
(***************************************************************************)
\* the entries whose file name contains the pattern, in listing order
Matching(listing, pattern) ==
    SelectSeq(listing, LAMBDA entry : Contains(entry.name, pattern))

\* Filesystem::present_number_of_copies; a failed read_dir counts no file
present_number_of_copies(listing, pattern, readable) ==
    IF readable THEN Len(Matching(listing, pattern)) ELSE 0

\* Filesystem::present_backup_files, when read_dir succeeds
present_backup_files(listing, pattern) == Matching(listing, pattern)

\* a min_by_key that takes the last of the entries whose key is least
min_by_key_last(files) ==
    CHOOSE i \in 1..Len(files) :
        /\ \A j \in 1..Len(files) : CreatedKey(files[i]) <= CreatedKey(files[j])
        /\ \A j \in (i + 1)..Len(files) : CreatedKey(files[j]) > CreatedKey(files[i])

\* Iterator::min_by_key over the creation time: the position of the first
\* entry of a non-empty listing whose key is least
min_by_key(files) ==
    CHOOSE i \in 1..Len(files) :
        /\ \A j \in 1..Len(files) : CreatedKey(files[i]) <= CreatedKey(files[j])
        /\ \A j \in 1..(i - 1) : CreatedKey(files[j]) > CreatedKey(files[i])

\* fs::remove_file of the entry called name
remove_file(listing, name) ==
    SelectSeq(listing, LAMBDA entry : entry.name # name)

\* Filesystem::delete_oldest_backup: readable is the outcome of read_dir,
\* removable the outcome of fs::remove_file
delete_oldest_backup(listing, pattern, readable, removable) ==
    IF ~readable
    THEN [ok |-> FALSE, dir |-> listing, removed |-> <<>>, calls |-> <<>>]
    ELSE LET files == present_backup_files(listing, pattern) IN
         IF Len(files) = 0
         THEN [ok |-> TRUE, dir |-> listing, removed |-> <<>>, calls |-> <<>>]
         ELSE LET oldest_file == files[min_by_key(files)].name IN
              IF removable
              THEN [ok |-> TRUE, dir |-> remove_file(listing, oldest_file),
                    removed |-> <<oldest_file>>, calls |-> <<"rm">>]
              ELSE [ok |-> FALSE, dir |-> listing, removed |-> <<>>,
                    calls |-> <<"rm">>]

(***************************************************************************)
(* The space preflight.  u64 and i64 are modelled Width bits wide.         *)
(***************************************************************************)
UMax == 2^Width - 1
IMin == -(2^(Width - 1))
IMax == 2^(Width - 1) - 1

\* `x as i64` of an unsigned value
as_i64(x) == IF x > IMax THEN x - 2^Width ELSE x

\* the two's complement value an i64 operation wraps to in a release build
wrapping(r) == ((r - IMin) % 2^Width) + IMin

\* the available space a fresh enumeration can report for the filesystem
AvailVals == {1, 2, 3, IMax + 1, UMax}

\* Device::total_size of every configured device, when the enumeration
\* reported a size that convert_to_byte_size can read
DevSize == <<2, IMax + 1>>

\* Filesystem::available_space: "err" when Lsblk::new fails, "panic" when
\* the fresh enumeration lists no filesystem of the UUID (find(..).unwrap()),
\* else Ok(None) or Ok(Some(bytes))
available_space ==
    {[res |-> "err", val |-> None], [res |-> "panic", val |-> None],
     [res |-> "ok", val |-> None]}
        \cup {[res |-> "ok", val |-> Some(v)] : v \in AvailVals}

\* Device::total_size: Err, Ok(None) or Ok(Some(bytes))
total_size(d) ==
    {[res |-> "err", val |-> None], [res |-> "ok", val |-> None],
     [res |-> "ok", val |-> Some(DevSize[d])]}

\* `available_space as i64 - needed_space as i64 > 0`, the outcomes of the
\* comparison: an overflowing subtraction panics in a debug build and wraps
\* in a release build
remaining_space_positive(available, needed) ==
    LET r == as_i64(available) - as_i64(needed) IN
    IF r >= IMin /\ r <= IMax
    THEN {IF r > 0 THEN "enough" ELSE "short"}
    ELSE {"panic", IF wrapping(r) > 0 THEN "enough" ELSE "short"}

\* Backup::target_filesystem_has_enough_space on what available_space and
\* total_size returned: the set of its outcomes.  space is "enough" (Ok),
\* "short" (Err, not enough space), "unknown" (warning, Ok), "err" (an
\* enumeration error) or "panic"; known tells that both figures were
\* obtained, and then le that the available space was at most the needed
\* space.
enough_space(a, n) ==
    IF a.res # "ok"
    THEN {[space |-> a.res, known |-> FALSE, le |-> FALSE]}
    ELSE IF n.res # "ok"
    THEN {[space |-> "err", known |-> FALSE, le |-> FALSE]}
    ELSE IF a.val # None /\ n.val # None
    THEN {[space |-> o, known |-> TRUE, le |-> a.val[1] <= n.val[1]] :
             o \in remaining_space_positive(a.val[1], n.val[1])}
    ELSE {[space |-> "unknown", known |-> FALSE, le |-> FALSE]}

\* Backup::target_filesystem_has_enough_space for device d, over everything
\* the two enumerations can report
target_filesystem_has_enough_space(d) ==
    UNION {enough_space(a, n) : a \in available_space, n \in total_size(d)}

(***************************************************************************)
(* Backup: one device attempt                                              *)
(***************************************************************************)
\* Backup::target_file_is_present: today's file of device d exists
target_file_is_present(d) ==
    \E i \in 1..Len(dir) : dir[i].name = FileName[d, day]

\* a needs_deletion that lets the count exceed the retention count
needs_deletion_above(d, readable) ==
    present_number_of_copies(dir, Suffix[d], readable)
        > copies[d]

\* Backup::needs_deletion, readable being the outcome of its read_dir
needs_deletion(d, readable) ==
    present_number_of_copies(dir, Suffix[d], readable)
        >= copies[d]

\* a delete_oldest_backup_if_needed that deletes in a dry run too
delete_oldest_backup_if_needed_in_dry_run(d) ==
    UNION { IF ~needs_deletion(d, readable)
            THEN {[needs |-> FALSE, readable |-> readable, ok |-> TRUE, dir |-> dir,
                   removed |-> <<>>, calls |-> <<>>]}
            ELSE {[needs |-> TRUE, readable |-> TRUE] @@
                  delete_oldest_backup(dir, Suffix[d],
                                       listable, removable) :
                      listable \in BOOLEAN, removable \in BOOLEAN}
          : readable \in BOOLEAN }

\* Backup::delete_oldest_backup_if_needed: the set of its outcomes
delete_oldest_backup_if_needed(d) ==
    UNION { IF ~needs_deletion(d, readable)
            THEN {[needs |-> FALSE, readable |-> readable, ok |-> TRUE, dir |-> dir,
                   removed |-> <<>>, calls |-> <<>>]}
            ELSE IF dry
            THEN {[needs |-> TRUE, readable |-> TRUE, ok |-> TRUE, dir |-> dir,
                   removed |-> <<>>, calls |-> <<>>]}
            ELSE {[needs |-> TRUE, readable |-> TRUE] @@
                  delete_oldest_backup(dir, Suffix[d],
                                       listable, removable) :
                      listable \in BOOLEAN, removable \in BOOLEAN}
          : readable \in BOOLEAN }

NoSpaceCheck == [space |-> "none", known |-> FALSE, le |-> FALSE]

\* a validate_state that checks the space after a deletion too
validate_state_always_checks_space(d) ==
    IF mountpoint = None
    THEN \* backup_dir_path: mountpoint.clone().unwrap()
         {[res |-> "panic", present |-> FALSE, needs |-> FALSE,
           readable |-> TRUE, dir |-> dir, removed |-> <<>>, calls |-> <<>>]
              @@ NoSpaceCheck}
    ELSE IF target_file_is_present(d)
    THEN {[res |-> "present", present |-> TRUE, needs |-> FALSE, readable |-> TRUE,
           dir |-> dir, removed |-> <<>>, calls |-> <<>>] @@ NoSpaceCheck}
    ELSE UNION {
           IF ~e.ok
           THEN {[res |-> "evict_err", present |-> FALSE, needs |-> e.needs,
                  readable |-> e.readable, dir |-> e.dir, removed |-> e.removed, calls |-> e.calls]
                     @@ NoSpaceCheck}
           ELSE {[res |-> CASE s.space \in {"enough", "unknown"} -> "ok"
                            [] OTHER -> s.space,
                   present |-> FALSE, needs |-> e.needs, readable |-> e.readable,
                   dir |-> e.dir,
                   removed |-> e.removed, calls |-> e.calls \o <<"lsblk">>] @@ s :
                     s \in target_filesystem_has_enough_space(d)}
         : e \in delete_oldest_backup_if_needed(d) }

\* a validate_state that goes on to the space check after a failed eviction
validate_state_after_failed_eviction(d) ==
    IF mountpoint = None
    THEN {[res |-> "panic", present |-> FALSE, needs |-> FALSE,
           readable |-> TRUE, dir |-> dir, removed |-> <<>>, calls |-> <<>>]
              @@ NoSpaceCheck}
    ELSE IF target_file_is_present(d)
    THEN {[res |-> "present", present |-> TRUE, needs |-> FALSE, readable |-> TRUE,
           dir |-> dir, removed |-> <<>>, calls |-> <<>>] @@ NoSpaceCheck}
    ELSE UNION {
           IF e.needs /\ e.ok
           THEN {[res |-> "ok", present |-> FALSE, needs |-> TRUE,
                  readable |-> e.readable, dir |-> e.dir,
                  removed |-> e.removed, calls |-> e.calls] @@ NoSpaceCheck}
           ELSE {[res |-> CASE s.space \in {"enough", "unknown"} -> "ok"
                            [] OTHER -> s.space,
                   present |-> FALSE, needs |-> e.needs, readable |-> e.readable,
                   dir |-> e.dir,
                   removed |-> e.removed, calls |-> e.calls \o <<"lsblk">>] @@ s :
                     s \in target_filesystem_has_enough_space(d)}
         : e \in delete_oldest_backup_if_needed(d) }

\* Backup::validate_state: the set of its outcomes.  res is "ok", "present"
\* (today's file exists), "evict_err", "short", "err" or "panic".
validate_state(d) ==
    IF mountpoint = None
    THEN \* backup_dir_path: mountpoint.clone().unwrap()
         {[res |-> "panic", present |-> FALSE, needs |-> FALSE,
           readable |-> TRUE, dir |-> dir, removed |-> <<>>, calls |-> <<>>]
              @@ NoSpaceCheck}
    ELSE IF target_file_is_present(d)
    THEN {[res |-> "present", present |-> TRUE, needs |-> FALSE, readable |-> TRUE,
           dir |-> dir, removed |-> <<>>, calls |-> <<>>] @@ NoSpaceCheck}
    ELSE UNION {
           IF ~e.ok
           THEN {[res |-> "evict_err", present |-> FALSE, needs |-> e.needs,
                  readable |-> e.readable, dir |-> e.dir, removed |-> e.removed, calls |-> e.calls]
                     @@ NoSpaceCheck}
           ELSE IF e.needs
           THEN {[res |-> "ok", present |-> FALSE, needs |-> TRUE,
                  readable |-> e.readable, dir |-> e.dir,
                  removed |-> e.removed, calls |-> e.calls] @@ NoSpaceCheck}
           ELSE {[res |-> CASE s.space \in {"enough", "unknown"} -> "ok"
                            [] OTHER -> s.space,
                   present |-> FALSE, needs |-> FALSE, readable |-> e.readable,
                   dir |-> e.dir,
                   removed |-> e.removed, calls |-> e.calls \o <<"lsblk">>] @@ s :
                     s \in target_filesystem_has_enough_space(d)}
         : e \in delete_oldest_backup_if_needed(d) }

\* the creation time of a file created on the day d.  Time is counted in
\* days; of two files created on the same day the directory lists the one
\* created first before the other, which is also the one min_by_key takes.
CreationTime(d) == d + 2

\* the directory after dd has created today's file of device d
dd_creates(listing, d) ==
    Append(listing, [name |-> FileName[d, day],
                     created |-> Some(CreationTime(day))])

\* Backup::run for device d: the set of its outcomes, each with the directory
\* it leaves.  dd fails with or without leaving a (partial) destination file.
Backup_run(d) ==
    UNION {
      IF v.res # "ok"
      THEN {v @@ [wrote |-> FALSE]}
      ELSE IF dry
      THEN {v @@ [wrote |-> FALSE]}
      ELSE {[v EXCEPT !.res = "dd_err", !.calls = v.calls \o <<"dd">>]
                @@ [wrote |-> FALSE],
            [v EXCEPT !.res = "dd_err", !.calls = v.calls \o <<"dd">>,
                      !.dir = dd_creates(v.dir, d)] @@ [wrote |-> TRUE],
            [v EXCEPT !.res = "chown_err", !.calls = v.calls \o <<"dd", "chown">>,
                      !.dir = dd_creates(v.dir, d)] @@ [wrote |-> TRUE],
            [v EXCEPT !.res = "ok", !.calls = v.calls \o <<"dd", "chown">>,
                      !.dir = dd_creates(v.dir, d)] @@ [wrote |-> TRUE]}
    : v \in validate_state(d) }

(***************************************************************************)
(* Filesystem: resolution by UUID                                          *)
(***************************************************************************)
\* the decimal digits of a size string
Digits == <<"0", "1", "2", "3", "4", "5", "6", "7", "8", "9">>
DigitValue(c) == (CHOOSE i \in 1..Len(Digits) : Digits[i] = c) - 1
IsDigit(c) == \E i \in 1..Len(Digits) : Digits[i] = c

\* the number a string of decimal digits denotes
RECURSIVE ParseDecimal(_)
ParseDecimal(s) ==
    IF s = <<>> THEN 0
    ELSE 10 * ParseDecimal(SubSeq(s, 1, Len(s) - 1)) + DigitValue(s[Len(s)])

\* utils::convert_to_byte_size on the size string of an enumeration: the
\* byte count of a string of digits, an error for a string it cannot read
convert_to_byte_size(s) ==
    IF s # <<>> /\ \A i \in 1..Len(s) : IsDigit(s[i])
    THEN [ok |-> TRUE, val |-> Some(ParseDecimal(s))]
    ELSE [ok |-> FALSE, val |-> None]

\* `.map(|fsavail| convert_to_byte_size(&fsavail).unwrap_or(None)).unwrap_or(None)`
fsavail_bytes(fsavail) ==
    IF fsavail = None THEN None
    ELSE LET c == convert_to_byte_size(fsavail[1]) IN
         IF c.ok THEN c.val ELSE None

\* a validate_uuid_uniq that lets two filesystems share the UUID
validate_uuid_uniq_or_pair(id, available) ==
    LET uuid_filtered_lsblk == SelectSeq(available, LAMBDA b : b.uuid = Some(id)) IN
    IF Len(uuid_filtered_lsblk) <= 2
    THEN [ok |-> TRUE, val |-> uuid_filtered_lsblk]
    ELSE [ok |-> FALSE, val |-> <<>>]

\* Filesystem::validate_uuid_uniq
validate_uuid_uniq(id, available) ==
    LET uuid_filtered_lsblk == SelectSeq(available, LAMBDA b : b.uuid = Some(id)) IN
    IF Len(uuid_filtered_lsblk) <= 1
    THEN [ok |-> TRUE, val |-> uuid_filtered_lsblk]
    ELSE [ok |-> FALSE, val |-> <<>>]

\* Filesystem::validate_present_uuid
validate_present_uuid(uuid_filtered_lsblk) ==
    IF Len(uuid_filtered_lsblk) = 1 THEN Some(uuid_filtered_lsblk[1]) ELSE None

\* Config::mountpath, defaulted by Filesystem::new
mountpath == "/mnt"

\* Filesystem::new: Err ("err"), Ok(None) ("absent") or Ok(Some(fs)) ("ok")
Filesystem_new(id, available, skip) ==
    LET u == validate_uuid_uniq(id, available) IN
    IF ~u.ok THEN [res |-> "err", fs |-> None]
    ELSE LET p == validate_present_uuid(u.val) IN
         IF p = None THEN [res |-> "absent", fs |-> None]
         ELSE [res |-> "ok",
               fs |-> Some([blockdevice |-> p[1],
                            device_path |-> <<"/dev", p[1].name>>,
                            mountpath |-> mountpath,
                            fsavail |-> fsavail_bytes(p[1].fsavail),
                            skip_fsck |-> skip])]

(***************************************************************************)
(* Filesystem: mount state and integrity check.  Each operator is the set  *)
(* of outcomes of the method on the filesystem fs: whether it returned Ok, *)
(* the filesystem it leaves, where the operating system then has it        *)
(* mounted, and the commands it ran.                                       *)
(***************************************************************************)
\* Filesystem::is_mounted
is_mounted(fs) == fs.blockdevice.mountpoint # None

\* a command or a method call of the pass, and whether it succeeded
Event(name, success) == [call |-> name, ok |-> success]

\* a mount that tracks the mount path although the command failed
Filesystem_mount_tracking_failure(fs, os) ==
    {[ok |-> FALSE, fs |-> [fs EXCEPT !.blockdevice.mountpoint = Some(fs.mountpath)],
      os |-> os, calls |-> <<Event("mount", FALSE)>>],
     [ok |-> TRUE, fs |-> [fs EXCEPT !.blockdevice.mountpoint = Some(fs.mountpath)],
      os |-> Some(fs.mountpath), calls |-> <<Event("mount", TRUE)>>]}

\* Filesystem::mount
Filesystem_mount(fs, os) ==
    {[ok |-> FALSE, fs |-> fs, os |-> os, calls |-> <<Event("mount", FALSE)>>],
     [ok |-> TRUE, fs |-> [fs EXCEPT !.blockdevice.mountpoint = Some(fs.mountpath)],
      os |-> Some(fs.mountpath), calls |-> <<Event("mount", TRUE)>>]}

\* an unmount that runs umount although the flush failed
Filesystem_unmount_without_flush(fs, os) ==
    IF fs.blockdevice.mountpoint = None
    THEN {[ok |-> FALSE, fs |-> fs, os |-> os, calls |-> <<Event("unmount", FALSE)>>]}
    ELSE {[ok |-> TRUE, fs |-> [fs EXCEPT !.blockdevice.mountpoint = None],
           os |-> None,
           calls |-> <<Event("unmount", TRUE), Event("sync", FALSE),
                       Event("umount", TRUE)>>],
          [ok |-> FALSE, fs |-> fs, os |-> os,
           calls |-> <<Event("unmount", FALSE), Event("sync", TRUE),
                       Event("umount", FALSE)>>],
          [ok |-> TRUE, fs |-> [fs EXCEPT !.blockdevice.mountpoint = None],
           os |-> None,
           calls |-> <<Event("unmount", TRUE), Event("sync", TRUE),
                       Event("umount", TRUE)>>]}

\* Filesystem::unmount; "unmount" marks the call of the method, "sync" and
\* "umount" are the commands it runs
Filesystem_unmount(fs, os) ==
    IF fs.blockdevice.mountpoint = None
    THEN {[ok |-> FALSE, fs |-> fs, os |-> os, calls |-> <<Event("unmount", FALSE)>>]}
    ELSE {[ok |-> FALSE, fs |-> fs, os |-> os,
           calls |-> <<Event("unmount", FALSE), Event("sync", FALSE)>>],
          [ok |-> FALSE, fs |-> fs, os |-> os,
           calls |-> <<Event("unmount", FALSE), Event("sync", TRUE),
                       Event("umount", FALSE)>>],
          [ok |-> TRUE, fs |-> [fs EXCEPT !.blockdevice.mountpoint = None],
           os |-> None,
           calls |-> <<Event("unmount", TRUE), Event("sync", TRUE),
                       Event("umount", TRUE)>>]}

\* Filesystem::validate_fsck_or_skip
validate_fsck_or_skip(fs) ==
    IF fs.skip_fsck
    THEN {[ok |-> TRUE, calls |-> <<>>]}
    ELSE {[ok |-> TRUE, calls |-> <<Event("fsck", TRUE)>>],
          [ok |-> FALSE, calls |-> <<Event("fsck", FALSE)>>]}

(***************************************************************************)
(* Initial states                                                          *)
(***************************************************************************)
MaxCopies == 2

\* the backups earlier days can have left in the destination directory: of
\* the first device from both old days, of the second from the later one;
\* the creation time of the files of the later old day cannot be read
OldEntries ==
    {[name |-> FileName[f[1], f[2]],
      created |-> IF f[2] = 0 THEN None ELSE Some(CreationTime(f[2]))] :
        f \in {<<1, -1>>, <<1, 0>>, <<2, 0>>}}

InitDirs ==
    {l \in UNION {[1..n -> OldEntries] : n \in 0..MaxInitFiles} :
        \A i, j \in 1..Len(l) : i # j => l[i].name # l[j].name}

\* the block devices an enumeration can list: the destination filesystem,
\* an unrelated filesystem and a clone that carries the same UUID
GroupUuid == "u1"
RealDevice(os) ==
    [name |-> "sdb1", uuid |-> Some(GroupUuid), mountpoint |-> os, fsavail |-> None]
OtherDevice ==
    [name |-> "sda1", uuid |-> Some("u2"), mountpoint |-> None, fsavail |-> None]
CloneDevice ==
    [name |-> "sdc1", uuid |-> Some(GroupUuid), mountpoint |-> None, fsavail |-> None]
Enumerations(os) ==
    {<<OtherDevice>>, <<OtherDevice, RealDevice(os)>>, <<RealDevice(os), CloneDevice>>}

NoAttempt ==
    [dev |-> 0, again |-> FALSE, count |-> 0, res |-> "none", present |-> FALSE,
     needs |-> FALSE, readable |-> TRUE, removed |-> <<>>, calls |-> <<>>, wrote |-> FALSE] @@ NoSpaceCheck

Init ==
    /\ day = 1
    /\ dir \in InitDirs
    /\ \E c \in 1..MaxCopies : copies = [d \in DevIds |-> c]
    /\ mounted \in {None, Some("/media")}
    /\ skip_mount \in BOOLEAN
    /\ skip_fsck \in BOOLEAN
    /\ uuid = GroupUuid
    /\ available_filesystems = <<>>
    /\ dst_filesystem = None
    /\ dry = FALSE
    /\ pc = "done"
    /\ idx = 1
    /\ ret = "none"
    /\ trace = <<>>
    /\ last = NoAttempt
    /\ okToday = {}
    /\ plan = <<>>
    /\ available_devices = <<>>
    /\ destination_path = <<>>
    /\ returned = None

(***************************************************************************)
(* Actions                                                                 *)
(***************************************************************************)
\* the pass ends: Backups::run (or Backups::new) returns r, or panics
Return(r) ==
    /\ pc' = "done"
    /\ ret' = r

\* a new process starts a pass: Lsblk::new enumerates the block devices
Enumerate ==
    /\ pc = "done"
    /\ pc' = "new"
    /\ available_filesystems' \in Enumerations(mounted)
    /\ ret' = "none"
    /\ idx' = 1
    /\ trace' = <<>>
    /\ last' = NoAttempt
    /\ dst_filesystem' = None
    /\ dry' = FALSE
    /\ UNCHANGED << day, dir, copies, mounted, uuid, skip_mount, skip_fsck, okToday >>
    /\ UNCHANGED function_vars

\* Backups::new on the enumeration: Filesystem::new; dry is the flag of the
\* command line
BackupsNew ==
    /\ pc = "new"
    /\ LET r == Filesystem_new(uuid, available_filesystems, skip_fsck) IN
       /\ dst_filesystem' = r.fs
       /\ IF r.res = "ok"
          THEN /\ pc' = "start"
               /\ dry' \in BOOLEAN
               /\ UNCHANGED ret
          ELSE /\ Return(IF r.res = "err" THEN "new_err" ELSE "absent")
               /\ UNCHANGED dry
    /\ UNCHANGED << day, dir, copies, mounted, uuid, available_filesystems,
                    skip_mount, skip_fsck, idx, trace, last, okToday >>
    /\ UNCHANGED function_vars

\* a Backups::run that goes on to the integrity check after a failed unmount
InitialUnmount_ignoring_failure ==
    /\ pc = "start"
    /\ IF ~skip_mount /\ is_mounted(dst_filesystem[1])
       THEN \E o \in Filesystem_unmount(dst_filesystem[1], mounted) :
              /\ dst_filesystem' = Some(o.fs)
              /\ mounted' = o.os
              /\ trace' = trace \o o.calls
              /\ pc' = "fsck"
              /\ UNCHANGED ret
       ELSE /\ pc' = "fsck"
            /\ UNCHANGED << dst_filesystem, mounted, trace, ret >>
    /\ UNCHANGED << skip_fsck, day, dir, copies, uuid, available_filesystems, dry,
                    skip_mount, idx, last, okToday >>
    /\ UNCHANGED function_vars

\* Backups::run, lines 90-92: unmount a filesystem found mounted
InitialUnmount ==
    /\ pc = "start"
    /\ IF ~skip_mount /\ is_mounted(dst_filesystem[1])
       THEN \E o \in Filesystem_unmount(dst_filesystem[1], mounted) :
              /\ dst_filesystem' = Some(o.fs)
              /\ mounted' = o.os
              /\ trace' = trace \o o.calls
              /\ IF o.ok THEN pc' = "fsck" /\ UNCHANGED ret ELSE Return("err")
       ELSE /\ pc' = "fsck"
            /\ UNCHANGED << dst_filesystem, mounted, trace, ret >>
    /\ UNCHANGED << skip_fsck, day, dir, copies, uuid, available_filesystems, dry,
                    skip_mount, idx, last, okToday >>
    /\ UNCHANGED function_vars

\* a Backups::run that goes on to mount after a failed integrity check
ValidateFsck_then_mount ==
    /\ pc = "fsck"
    /\ \E o \in validate_fsck_or_skip(dst_filesystem[1]) :
         /\ trace' = trace \o o.calls
         /\ pc' = "mount"
    /\ UNCHANGED << skip_fsck, day, dir, copies, mounted, uuid, available_filesystems,
                    dst_filesystem, dry, skip_mount, idx, last, okToday, ret >>
    /\ UNCHANGED function_vars

\* Backups::run, line 94: the integrity check; its failure ends the pass
\* with Ok
ValidateFsck ==
    /\ pc = "fsck"
    /\ \E o \in validate_fsck_or_skip(dst_filesystem[1]) :
         /\ trace' = trace \o o.calls
         /\ IF o.ok THEN pc' = "mount" /\ UNCHANGED ret ELSE Return("ok")
    /\ UNCHANGED << skip_fsck, day, dir, copies, mounted, uuid, available_filesystems,
                    dst_filesystem, dry, skip_mount, idx, last, okToday >>
    /\ UNCHANGED function_vars

\* a Backups::run that mounts whatever skip_mount says
Mount_ignoring_skip_mount ==
    /\ pc = "mount"
    /\ \E o \in Filesystem_mount(dst_filesystem[1], mounted) :
         /\ dst_filesystem' = Some(o.fs)
         /\ mounted' = o.os
         /\ trace' = trace \o o.calls
         /\ IF o.ok THEN pc' = "loop" /\ UNCHANGED ret ELSE Return("err")
    /\ UNCHANGED << skip_fsck, day, dir, copies, uuid, available_filesystems, dry,
                    skip_mount, idx, last, okToday >>
    /\ UNCHANGED function_vars

\* a Backups::run that enters the loop after a failed mount
Mount_continuing_after_failure ==
    /\ pc = "mount"
    /\ IF ~skip_mount
       THEN \E o \in Filesystem_mount(dst_filesystem[1], mounted) :
              /\ dst_filesystem' = Some(o.fs)
              /\ mounted' = o.os
              /\ trace' = trace \o o.calls
              /\ pc' = "loop"
              /\ UNCHANGED ret
       ELSE /\ pc' = "loop"
            /\ UNCHANGED << dst_filesystem, mounted, trace, ret >>
    /\ UNCHANGED << skip_fsck, day, dir, copies, uuid, available_filesystems, dry,
                    skip_mount, idx, last, okToday >>
    /\ UNCHANGED function_vars

\* Backups::run, lines 96-98: mount
Mount ==
    /\ pc = "mount"
    /\ IF ~skip_mount
       THEN \E o \in Filesystem_mount(dst_filesystem[1], mounted) :
              /\ dst_filesystem' = Some(o.fs)
              /\ mounted' = o.os
              /\ trace' = trace \o o.calls
              /\ IF o.ok THEN pc' = "loop" /\ UNCHANGED ret ELSE Return("err")
       ELSE /\ pc' = "loop"
            /\ UNCHANGED << dst_filesystem, mounted, trace, ret >>
    /\ UNCHANGED << skip_fsck, day, dir, copies, uuid, available_filesystems, dry,
                    skip_mount, idx, last, okToday >>
    /\ UNCHANGED function_vars

\* a Backups::run that returns the error of a failed Backup::run
BackupDevice_returning_error ==
    /\ pc = "loop"
    /\ idx <= Len(backup_devices)
    /\ \E o \in Backup_run(idx) :
         /\ dir' = o.dir
         /\ last' = [dev |-> idx, again |-> idx \in okToday,
                     count |-> Len(Matching(dir, Suffix[idx])),
                     res |-> o.res, present |-> o.present, needs |-> o.needs,
                     readable |-> o.readable,
                     removed |-> o.removed, calls |-> o.calls, wrote |-> o.wrote,
                     space |-> o.space, known |-> o.known, le |-> o.le]
         /\ okToday' = IF o.res = "ok" /\ ~dry THEN okToday \cup {idx} ELSE okToday
         /\ IF o.res = "panic"
            THEN Return("panic") /\ UNCHANGED idx
            ELSE IF o.res # "ok"
            THEN Return("err") /\ UNCHANGED idx
            ELSE idx' = idx + 1 /\ UNCHANGED << pc, ret >>
    /\ trace' = Append(trace, Event("backup", last'.res = "ok"))
    /\ UNCHANGED << skip_fsck, day, copies, mounted, uuid, available_filesystems,
                    dst_filesystem, dry, skip_mount >>
    /\ UNCHANGED function_vars

\* Backups::run, lines 100-106: Backup::run for the next device of the group
BackupDevice ==
    /\ pc = "loop"
    /\ idx <= Len(backup_devices)
    /\ \E o \in Backup_run(idx) :
         /\ dir' = o.dir
         /\ last' = [dev |-> idx, again |-> idx \in okToday,
                     count |-> Len(Matching(dir, Suffix[idx])),
                     res |-> o.res, present |-> o.present, needs |-> o.needs,
                     readable |-> o.readable,
                     removed |-> o.removed, calls |-> o.calls, wrote |-> o.wrote,
                     space |-> o.space, known |-> o.known, le |-> o.le]
         /\ okToday' = IF o.res = "ok" /\ ~dry THEN okToday \cup {idx} ELSE okToday
         /\ IF o.res = "panic"
            THEN Return("panic") /\ UNCHANGED idx
            ELSE idx' = idx + 1 /\ UNCHANGED << pc, ret >>
    /\ trace' = Append(trace, Event("backup", last'.res = "ok"))
    /\ UNCHANGED << skip_fsck, day, copies, mounted, uuid, available_filesystems,
                    dst_filesystem, dry, skip_mount >>
    /\ UNCHANGED function_vars

\* Backups::run, lines 108-111: unmount after the loop, and return
FinalUnmount ==
    /\ pc = "loop"
    /\ idx > Len(backup_devices)
    /\ IF ~skip_mount
       THEN \E o \in Filesystem_unmount(dst_filesystem[1], mounted) :
              /\ dst_filesystem' = Some(o.fs)
              /\ mounted' = o.os
              /\ trace' = trace \o o.calls
              /\ Return(IF o.ok THEN "ok" ELSE "err")
       ELSE /\ Return("ok")
            /\ UNCHANGED << dst_filesystem, mounted, trace >>
    /\ last' = NoAttempt
    /\ UNCHANGED << skip_fsck, day, dir, copies, uuid, available_filesystems, dry,
                    skip_mount, idx, okToday >>
    /\ UNCHANGED function_vars

\* midnight, between two passes
NextDay ==
    /\ pc = "done"
    /\ day < MaxDay
    /\ day' = day + 1
    /\ okToday' = {}
    /\ UNCHANGED << skip_fsck, dir, copies, mounted, uuid, available_filesystems,
                    dst_filesystem, dry, skip_mount, pc, idx, ret, trace, last >>
    /\ UNCHANGED function_vars

Next ==
    \/ Enumerate
    \/ BackupsNew
    \/ InitialUnmount
    \/ ValidateFsck
    \/ Mount
    \/ BackupDevice
    \/ FinalUnmount
    \/ NextDay

Spec == Init /\ [][Next]_vars

(***************************************************************************)
(* Resolution alone: Backups::new on every enumeration of at most          *)
(* MaxBlockDevices block devices, for every UUID of a group                *)
(***************************************************************************)
MaxBlockDevices == 3

DeviceNames == <<"sda1", "sdb1", "sdc1", "sdd1", "sde1">>
Uuids == {"u1", "u2"}

AllEnumerations ==
    UNION {{[i \in 1..n |-> [name |-> DeviceNames[i], uuid |-> u[i], mountpoint |-> None,
                              fsavail |-> None]] :
               u \in [1..n -> {None} \cup {Some(x) : x \in Uuids}]} :
             n \in 0..MaxBlockDevices}

InitResolve ==
    /\ day = 1
    /\ dir = <<>>
    /\ copies = [d \in DevIds |-> 1]
    /\ mounted = None
    /\ uuid \in Uuids
    /\ available_filesystems \in AllEnumerations
    /\ dst_filesystem = None
    /\ dry = FALSE
    /\ skip_mount \in BOOLEAN
    /\ skip_fsck \in BOOLEAN
    /\ pc = "new"
    /\ idx = 1
    /\ ret = "none"
    /\ trace = <<>>
    /\ last = NoAttempt
    /\ okToday = {}
    /\ plan = <<>>
    /\ available_devices = <<>>
    /\ destination_path = <<>>
    /\ returned = None

NextResolve == BackupsNew

SpecResolve == InitResolve /\ [][NextResolve]_vars

(***************************************************************************)
(* Backups::new on its own: the filesystem and the devices of one group,   *)
(* for every enumeration of at most MaxSources source devices              *)
(***************************************************************************)
MaxConfigured == 2
MaxSources == 3
Serials == {"s1", "s2", "s3"}

\* Device::new: Ok(None) when no enumerated device carries the serial,
\* Ok(Some(device)) when one does, Err when several do
Device_new(backup_device, available) ==
    LET found == SelectSeq(available, LAMBDA b : b.serial = Some(backup_device.serial)) IN
    IF Len(found) > 1 THEN [res |-> "err", device |-> None]
    ELSE IF Len(found) = 0 THEN [res |-> "ok", device |-> None]
    ELSE [res |-> "ok",
          device |-> Some([serial |-> backup_device.serial, blockdevice |-> found[1]])]

\* a Backups::new that drops a device whose resolution failed
Backups_new_dropping_errors(backup_config, filesystems, devices) ==
    LET fs == Filesystem_new(backup_config.uuid, filesystems, backup_config.skip_fsck) IN
    IF fs.res = "err" THEN [res |-> "err", dst_filesystem |-> None, backup_devices |-> <<>>]
    ELSE IF fs.fs = None
    THEN [res |-> "absent", dst_filesystem |-> None, backup_devices |-> <<>>]
    ELSE LET backup_devices_result ==
                 [i \in 1..Len(backup_config.backup_devices) |->
                     Device_new(backup_config.backup_devices[i], devices)]
         IN [res |-> "ok", dst_filesystem |-> fs.fs,
             backup_devices |->
                 FilterMap([i \in 1..Len(backup_devices_result) |->
                               backup_devices_result[i].device])]

\* Backups::new: Err ("err"), Ok(None) ("absent") or Ok(Some(backups)) ("ok")
Backups_new(backup_config, filesystems, devices) ==
    LET fs == Filesystem_new(backup_config.uuid, filesystems, backup_config.skip_fsck) IN
    IF fs.res = "err" THEN [res |-> "err", dst_filesystem |-> None, backup_devices |-> <<>>]
    ELSE IF fs.fs = None
    THEN [res |-> "absent", dst_filesystem |-> None, backup_devices |-> <<>>]
    ELSE LET backup_devices_result ==
                 [i \in 1..Len(backup_config.backup_devices) |->
                     Device_new(backup_config.backup_devices[i], devices)]
         IN IF \E i \in 1..Len(backup_devices_result) : backup_devices_result[i].res = "err"
            THEN [res |-> "err", dst_filesystem |-> None, backup_devices |-> <<>>]
            ELSE [res |-> "ok", dst_filesystem |-> fs.fs,
                  backup_devices |->
                      FilterMap([i \in 1..Len(backup_devices_result) |->
                                    backup_devices_result[i].device])]

\* the lists of at most n elements of the set S
SeqsUpTo(S, n) == UNION {[1..k -> S] : k \in 0..n}

\* the devices a group can configure: their serials differ
ConfiguredDevices ==
    {[i \in 1..Len(l) |-> [serial |-> l[i], copies |-> None]] :
        l \in {x \in SeqsUpTo(Serials, MaxConfigured) :
                  \A i, j \in 1..Len(x) : i # j => x[i] # x[j]}}

\* the source devices an enumeration can list
SourceDevices ==
    {[i \in 1..Len(l) |-> [name |-> DeviceNames[i], serial |-> l[i]]] :
        l \in SeqsUpTo({None} \cup {Some(x) : x \in Serials}, MaxSources)}

InitDevices ==
    /\ day = 1
    /\ dir = <<>>
    /\ copies = [d \in DevIds |-> 1]
    /\ mounted = None
    /\ uuid = GroupUuid
    /\ available_filesystems \in Enumerations(None)
    /\ dst_filesystem = None
    /\ dry = FALSE
    /\ skip_mount = FALSE
    /\ skip_fsck = FALSE
    /\ pc = "new"
    /\ idx = 1
    /\ ret = "none"
    /\ trace = <<>>
    /\ last = NoAttempt
    /\ okToday = {}
    /\ plan \in {[backups |-> <<[uuid |-> GroupUuid, backup_devices |-> ds,
                                  skip_fsck |-> FALSE]>>] : ds \in ConfiguredDevices}
    /\ available_devices \in SourceDevices
    /\ destination_path = <<>>
    /\ returned = None

\* Backups::new for the group of the plan
BackupsNewGroup ==
    /\ pc = "new"
    /\ returned' = Some(Backups_new(plan.backups[1], available_filesystems,
                                     available_devices))
    /\ pc' = "done"
    /\ UNCHANGED << pass_vars, uuid, available_filesystems, skip_fsck, ret, plan,
                    available_devices, destination_path >>

NextDevices == BackupsNewGroup

SpecDevices == InitDevices /\ [][NextDevices]_vars

(***************************************************************************)
(* Config::validate_config on its own, for every plan of at most MaxGroups *)
(* groups that configure at most MaxPlanDevices devices together           *)
(***************************************************************************)
MaxGroups == 2
MaxPlanDevices == 2

\* a validate_config that wants the serials to differ in the whole plan
validate_config_serials_of_plan(config) ==
    IF ~config.ok THEN [ok |-> FALSE, err |-> config.err, val |-> None]
    ELSE LET backups == config.val[1].backups
             uuids == {backups[i].uuid : i \in 1..Len(backups)}
             duplicate_serial(backup) ==
                 \E b \in 1..Len(backups) : \E i \in 1..Len(backup.backup_devices) :
                     \E j \in 1..Len(backups[b].backup_devices) :
                         /\ backups[b].backup_devices[j].serial
                               = backup.backup_devices[i].serial
                         /\ (backups[b] # backup \/ i # j)
             zero_copies(backup) ==
                 \E i \in 1..Len(backup.backup_devices) :
                     backup.backup_devices[i].copies = Some(0)
             failing == {i \in 1..Len(backups) :
                            duplicate_serial(backups[i]) \/ zero_copies(backups[i])}
         IN IF Cardinality(uuids) # Len(backups)
            THEN [ok |-> FALSE, err |-> "Duplicate UUID", val |-> None]
            ELSE IF failing = {}
            THEN [ok |-> TRUE, err |-> "", val |-> config.val]
            ELSE LET first == CHOOSE i \in failing : \A j \in failing : i <= j IN
                 IF duplicate_serial(backups[first])
                 THEN [ok |-> FALSE, err |-> "Duplicate serial number", val |-> None]
                 ELSE [ok |-> FALSE, err |-> "Invalid number of copies", val |-> None]

\* a validate_config that lets a retention count of 0 pass
validate_config_any_copies(config) ==
    IF ~config.ok THEN [ok |-> FALSE, err |-> config.err, val |-> None]
    ELSE LET backups == config.val[1].backups
             uuids == {backups[i].uuid : i \in 1..Len(backups)}
             duplicate_serial(backup) ==
                 Cardinality({backup.backup_devices[i].serial :
                                 i \in 1..Len(backup.backup_devices)})
                     # Len(backup.backup_devices)
             zero_copies(backup) == FALSE
             failing == {i \in 1..Len(backups) :
                            duplicate_serial(backups[i]) \/ zero_copies(backups[i])}
         IN IF Cardinality(uuids) # Len(backups)
            THEN [ok |-> FALSE, err |-> "Duplicate UUID", val |-> None]
            ELSE IF failing = {}
            THEN [ok |-> TRUE, err |-> "", val |-> config.val]
            ELSE LET first == CHOOSE i \in failing : \A j \in failing : i <= j IN
                 IF duplicate_serial(backups[first])
                 THEN [ok |-> FALSE, err |-> "Duplicate serial number", val |-> None]
                 ELSE [ok |-> FALSE, err |-> "Invalid number of copies", val |-> None]

\* Config::validate_config: Err with its message, or Ok with the plan
validate_config(config) ==
    IF ~config.ok THEN [ok |-> FALSE, err |-> config.err, val |-> None]
    ELSE LET backups == config.val[1].backups
             uuids == {backups[i].uuid : i \in 1..Len(backups)}
             duplicate_serial(backup) ==
                 Cardinality({backup.backup_devices[i].serial :
                                 i \in 1..Len(backup.backup_devices)})
                     # Len(backup.backup_devices)
             zero_copies(backup) ==
                 \E i \in 1..Len(backup.backup_devices) :
                     backup.backup_devices[i].copies = Some(0)
             failing == {i \in 1..Len(backups) :
                            duplicate_serial(backups[i]) \/ zero_copies(backups[i])}
         IN IF Cardinality(uuids) # Len(backups)
            THEN [ok |-> FALSE, err |-> "Duplicate UUID", val |-> None]
            ELSE IF failing = {}
            THEN [ok |-> TRUE, err |-> "", val |-> config.val]
            ELSE LET first == CHOOSE i \in failing : \A j \in failing : i <= j IN
                 IF duplicate_serial(backups[first])
                 THEN [ok |-> FALSE, err |-> "Duplicate serial number", val |-> None]
                 ELSE [ok |-> FALSE, err |-> "Invalid number of copies", val |-> None]

\* the devices a plan can configure: the retention count is absent, 0 or 1
DeviceSpecs == [serial : {"s1", "s2"}, copies : {None, Some(0), Some(1)}]

\* the groups of k devices
GroupsOfSize(k) == [uuid : Uuids, backup_devices : [1..k -> DeviceSpecs]]

\* the lists of g groups that configure at most n devices together
RECURSIVE PlansOf(_, _)
PlansOf(g, n) ==
    IF g = 0 THEN {<<>>}
    ELSE UNION {{Append(p, group) : p \in PlansOf(g - 1, n - k), group \in GroupsOfSize(k)} :
                   k \in 0..n}

\* what read_config_file hands to validate_config: a parsed plan or an error
Plans(groups, devices) ==
    {[ok |-> FALSE, err |-> "Cannot parse config file", val |-> None]}
        \cup {[ok |-> TRUE, err |-> "", val |-> Some([backups |-> p])] :
                  p \in UNION {PlansOf(g, devices) : g \in 0..groups}}

InitConfig ==
    /\ day = 1
    /\ dir = <<>>
    /\ copies = [d \in DevIds |-> 1]
    /\ mounted = None
    /\ uuid = GroupUuid
    /\ available_filesystems = <<>>
    /\ dst_filesystem = None
    /\ dry = FALSE
    /\ skip_mount = FALSE
    /\ skip_fsck = FALSE
    /\ pc = "config"
    /\ idx = 1
    /\ ret = "none"
    /\ trace = <<>>
    /\ last = NoAttempt
    /\ okToday = {}
    /\ plan \in Plans(MaxGroups, MaxPlanDevices)
    /\ available_devices = <<>>
    /\ destination_path = <<>>
    /\ returned = None

\* Config::new: validate_config on what read_config_file returned
ConfigNew ==
    /\ pc = "config"
    /\ returned' = Some(validate_config(plan))
    /\ pc' = "done"
    /\ UNCHANGED << pass_vars, uuid, available_filesystems, skip_fsck, ret, plan,
                    available_devices, destination_path >>

NextConfig == ConfigNew

SpecConfig == InitConfig /\ [][NextConfig]_vars

(***************************************************************************)
(* The destination paths of Backup on their own, for every destination     *)
(* subpath of at most MaxPathLen characters.  Paths are strings of the     *)
(* characters "/", "." and letters.                                        *)
(***************************************************************************)
MaxPathLen == 5

\* the position of the first "/" of a string, or one past its end
RECURSIVE FirstSlash(_)
FirstSlash(s) ==
    IF s = <<>> \/ Head(s) = "/" THEN 1 ELSE 1 + FirstSlash(Tail(s))

\* RelativePath::components: the parts between the "/", the empty ones left
\* out
RECURSIVE Components(_)
Components(s) ==
    IF s = <<>> THEN <<>>
    ELSE LET k == FirstSlash(s)
             part == SubSeq(s, 1, k - 1)
         IN (IF part = <<>> THEN <<>> ELSE <<part>>)
                \o Components(SubSeq(s, k + 1, Len(s)))

\* relative_path::Component::CurDir and ParentDir
CurDir == <<".">>
ParentDir == <<".", ".">>

\* relative_traversal of the relative_path crate: "." is left out, ".."
\* removes the last component of buf, or is kept when there is none to remove
RECURSIVE relative_traversal(_, _)
relative_traversal(buf, components) ==
    IF components = <<>> THEN buf
    ELSE LET c == Head(components)
             next == IF c = CurDir THEN buf
                     ELSE IF c = ParentDir
                     THEN IF buf = <<>> \/ buf[Len(buf)] = ParentDir
                          THEN Append(buf, c)
                          ELSE SubSeq(buf, 1, Len(buf) - 1)
                     ELSE Append(buf, c)
         IN relative_traversal(next, Tail(components))

\* RelativePath::join_normalized, as a string
join_normalized(base, path) ==
    Join(relative_traversal(relative_traversal(<<>>, Components(base)),
                            Components(path)), <<"/">>)

\* Backup::backup_dir_path
backup_dir_path == <<"/">> \o join_normalized(mountpoint[1], destination_path)

\* Backup::backup_file_path
backup_file_path == <<"/">> \o join_normalized(backup_dir_path, FileName[1, day])

\* the strings of at most n characters of the set S
RECURSIVE Strings(_, _)
Strings(S, n) ==
    IF n = 0 THEN {<<>>}
    ELSE LET shorter == Strings(S, n - 1) IN
         shorter \cup {Append(x, c) : x \in shorter, c \in S}

\* the mount points of the filesystem
MountPoints == {<<"/", "m">>, <<"/", "m", "/", "n">>}

InitPath ==
    /\ day = 1
    /\ dir = <<>>
    /\ copies = [d \in DevIds |-> 1]
    /\ \E m \in MountPoints :
          /\ mounted = Some(m)
          /\ dst_filesystem = Some([blockdevice |-> [name |-> "sdb1", uuid |-> Some(GroupUuid),
                                                     mountpoint |-> Some(m),
                                                     fsavail |-> None],
                                    device_path |-> <<"/dev", "sdb1">>,
                                    mountpath |-> m, fsavail |-> None,
                                    skip_fsck |-> FALSE])
    /\ uuid = GroupUuid
    /\ available_filesystems = <<>>
    /\ dry = FALSE
    /\ skip_mount = FALSE
    /\ skip_fsck = FALSE
    /\ pc = "paths"
    /\ idx = 1
    /\ ret = "none"
    /\ trace = <<>>
    /\ last = NoAttempt
    /\ okToday = {}
    /\ plan = <<>>
    /\ available_devices = <<>>
    /\ destination_path \in Strings({"/", ".", "a"}, MaxPathLen)
    /\ returned = None

\* Backup computes its destination directory and file
BackupPaths ==
    /\ pc = "paths"
    /\ returned' = Some([dir |-> backup_dir_path, file |-> backup_file_path])
    /\ pc' = "done"
    /\ UNCHANGED << pass_vars, uuid, available_filesystems, skip_fsck, ret, plan,
                    available_devices, destination_path >>

NextPath == BackupPaths

SpecPath == InitPath /\ [][NextPath]_vars

(***************************************************************************)
(* The space preflight on its own: SpecSpace.  dst_filesystem is the       *)
(* filesystem as Filesystem::new resolved it from the enumeration of the   *)
(* pass; available_filesystems is what the enumeration made inside         *)
(* available_space lists.                                                  *)
(***************************************************************************)
\* the decimal string of a number
RECURSIVE Decimal(_)
Decimal(n) ==
    IF n < 10 THEN << Digits[n + 1] >>
    ELSE Decimal(n \div 10) \o << Digits[(n % 10) + 1] >>

\* what an enumeration reports as the available space of a filesystem:
\* nothing, the decimal string of a u64 or a string that cannot be read
SizeStrings == {Decimal(v) : v \in 0..UMax} \cup {<< "?" >>}
FsAvails == {None} \cup {Some(x) : x \in SizeStrings}

\* an available_space that answers with the figure of the resolution
Filesystem_available_space_of_snapshot(fs, lsblk) ==
    IF ~lsblk.ok THEN [res |-> "err", val |-> None]
    ELSE LET found == SelectSeq(lsblk.available_filesystems,
                                LAMBDA b : b.uuid = fs.blockdevice.uuid) IN
         IF found = <<>> THEN [res |-> "panic", val |-> None]
         ELSE [res |-> "ok", val |-> fs.fsavail]

\* Filesystem::available_space of the filesystem fs, lsblk being what its
\* Lsblk::new() returns: Err, a panic of find(..).unwrap(), or the figure
\* of the first listed filesystem with the UUID
Filesystem_available_space(fs, lsblk) ==
    IF ~lsblk.ok THEN [res |-> "err", val |-> None]
    ELSE LET found == SelectSeq(lsblk.available_filesystems,
                                LAMBDA b : b.uuid = fs.blockdevice.uuid) IN
         IF found = <<>> THEN [res |-> "panic", val |-> None]
         ELSE [res |-> "ok", val |-> fsavail_bytes(found[1].fsavail)]

\* the destination as an enumeration lists it, reporting fsavail
ListedDevice(os, fsavail) == [RealDevice(os) EXCEPT !.fsavail = fsavail]

\* the enumerations available_space can get
FreshEnumerations ==
    {<< OtherDevice >>}
        \cup {<< OtherDevice, ListedDevice(Some(mountpath), f) >> : f \in FsAvails}

\* everything Device::total_size can return: Err, Ok(None) or Ok(Some(u64))
TotalSizes ==
    {[res |-> "err", val |-> None], [res |-> "ok", val |-> None]}
        \cup {[res |-> "ok", val |-> Some(v)] : v \in 0..UMax}

InitSpace ==
    /\ day = 1
    /\ dir = <<>>
    /\ copies = [d \in DevIds |-> 1]
    /\ mounted = Some(mountpath)
    /\ uuid = GroupUuid
    /\ \E f \in FsAvails :
          dst_filesystem =
              Filesystem_new(uuid, << OtherDevice, ListedDevice(None, f) >>, FALSE).fs
    /\ available_filesystems \in FreshEnumerations
    /\ dry = FALSE
    /\ skip_mount = FALSE
    /\ skip_fsck = FALSE
    /\ pc = "space"
    /\ idx = 1
    /\ ret = "none"
    /\ trace = <<>>
    /\ last = NoAttempt
    /\ okToday = {}
    /\ plan = <<>>
    /\ available_devices = <<>>
    /\ destination_path = <<>>
    /\ returned = None

\* Backup::target_filesystem_has_enough_space: available_space with its own
\* enumeration, total_size, and the comparison
SpacePreflight ==
    /\ pc = "space"
    /\ \E enumerated \in BOOLEAN, needed \in TotalSizes :
         LET lsblk == [ok |-> enumerated, available_filesystems |-> available_filesystems]
             available == Filesystem_available_space(dst_filesystem[1], lsblk)
         IN \E o \in enough_space(available, needed) :
               returned' = Some([available |-> available, needed |-> needed,
                                 outcome |-> o])
    /\ pc' = "done"
    /\ UNCHANGED << pass_vars, uuid, available_filesystems, skip_fsck, ret, plan,
                    available_devices, destination_path >>

NextSpace == SpacePreflight

SpecSpace == InitSpace /\ [][NextSpace]_vars

(***************************************************************************)
(* Filesystem::mount and Filesystem::unmount on their own: SpecMount.      *)
(* The two methods are called in any order on a filesystem that was        *)
(* resolved mounted or unmounted.                                          *)
(***************************************************************************)
\* the number of calls of the two methods in one behaviour
MaxOps == 3

\* the calls of mount and unmount made so far
Operations == Len(SelectSeq(trace, LAMBDA e : e.call \in {"mount", "unmount"}))

\* where an enumeration can find the filesystem mounted
StartMountPoints == {None, Some("/media"), Some(mountpath)}

InitMount ==
    /\ day = 1
    /\ dir = <<>>
    /\ copies = [d \in DevIds |-> 1]
    /\ mounted \in StartMountPoints
    /\ uuid = GroupUuid
    /\ available_filesystems = << OtherDevice, RealDevice(mounted) >>
    /\ dst_filesystem = Filesystem_new(uuid, available_filesystems, FALSE).fs
    /\ dry = FALSE
    /\ skip_mount = FALSE
    /\ skip_fsck = FALSE
    /\ pc = "ops"
    /\ idx = 1
    /\ ret = "none"
    /\ trace = <<>>
    /\ last = NoAttempt
    /\ okToday = {}
    /\ plan = <<>>
    /\ available_devices = <<>>
    /\ destination_path = <<>>
    /\ returned = None

\* a call of Filesystem::mount
MountCall ==
    /\ pc = "ops"
    /\ Operations < MaxOps
    /\ \E o \in Filesystem_mount(dst_filesystem[1], mounted) :
         /\ dst_filesystem' = Some(o.fs)
         /\ mounted' = o.os
         /\ trace' = trace \o o.calls
         /\ returned' = Some(o.ok)
    /\ UNCHANGED << day, dir, copies, uuid, available_filesystems, dry, skip_mount,
                    skip_fsck, pc, idx, ret, last, okToday, plan, available_devices,
                    destination_path >>

\* a call of Filesystem::unmount
UnmountCall ==
    /\ pc = "ops"
    /\ Operations < MaxOps
    /\ \E o \in Filesystem_unmount(dst_filesystem[1], mounted) :
         /\ dst_filesystem' = Some(o.fs)
         /\ mounted' = o.os
         /\ trace' = trace \o o.calls
         /\ returned' = Some(o.ok)
    /\ UNCHANGED << day, dir, copies, uuid, available_filesystems, dry, skip_mount,
                    skip_fsck, pc, idx, ret, last, okToday, plan, available_devices,
                    destination_path >>

NextMount == MountCall \/ UnmountCall

SpecMount == InitMount /\ [][NextMount]_vars

(***************************************************************************)
(* Two runs of Backup::run for the first device on one day: SpecRerun.     *)
(* The filesystem is mounted, neither run is dry; returned keeps what the  *)
(* first run did, last what the second did.                                *)
(***************************************************************************)
InitRerun ==
    /\ day = 1
    /\ dir \in InitDirs
    /\ \E c \in 1..MaxCopies : copies = [d \in DevIds |-> c]
    /\ mounted = Some(mountpath)
    /\ uuid = GroupUuid
    /\ available_filesystems = << OtherDevice, RealDevice(mounted) >>
    /\ dst_filesystem = Filesystem_new(uuid, available_filesystems, FALSE).fs
    /\ dry = FALSE
    /\ skip_mount = TRUE
    /\ skip_fsck = FALSE
    /\ pc = "first"
    /\ idx = 1
    /\ ret = "none"
    /\ trace = <<>>
    /\ last = NoAttempt
    /\ okToday = {}
    /\ plan = <<>>
    /\ available_devices = <<>>
    /\ destination_path = <<>>
    /\ returned = None

\* Backup::run in the first pass of the day
FirstRun ==
    /\ pc = "first"
    /\ \E o \in Backup_run(idx) :
         /\ dir' = o.dir
         /\ returned' = Some([res |-> o.res, calls |-> o.calls, wrote |-> o.wrote])
         /\ okToday' = IF o.res = "ok" THEN okToday \cup {idx} ELSE okToday
    /\ pc' = "second"
    /\ UNCHANGED << day, copies, mounted, uuid, available_filesystems, dst_filesystem,
                    dry, skip_mount, skip_fsck, idx, ret, trace, last, plan,
                    available_devices, destination_path >>

\* Backup::run in a later pass of the same day
SecondRun ==
    /\ pc = "second"
    /\ \E o \in Backup_run(idx) :
         /\ dir' = o.dir
         /\ last' = [dev |-> idx, again |-> idx \in okToday,
                     count |-> Len(Matching(dir, Suffix[idx])),
                     res |-> o.res, present |-> o.present, needs |-> o.needs,
                     readable |-> o.readable,
                     removed |-> o.removed, calls |-> o.calls, wrote |-> o.wrote,
                     space |-> o.space, known |-> o.known, le |-> o.le]
         /\ okToday' = IF o.res = "ok" THEN okToday \cup {idx} ELSE okToday
    /\ pc' = "done"
    /\ UNCHANGED << day, copies, mounted, uuid, available_filesystems, dst_filesystem,
                    dry, skip_mount, skip_fsck, idx, ret, trace, plan,
                    available_devices, destination_path, returned >>

NextRerun == FirstRun \/ SecondRun

SpecRerun == InitRerun /\ [][NextRerun]_vars

(***************************************************************************)
(* Properties                                                              *)
(***************************************************************************)
\* the commands that change the destination filesystem
MutatingCalls == {"rm", "dd", "chown"}

\* the commands of the sequence calls that change the destination
Mutations(calls) == {i \in 1..Len(calls) : calls[i] \in MutatingCalls}

\* every step of the loop of Backups::run is a call of Backup::run
AtBackupRun == pc = "loop" /\ idx <= Len(backup_devices)

\* C1: a device attempt of a dry run leaves the destination directory as it
\* was and runs no deletion, no copy and no ownership change, even when the
\* retention check asks for a deletion and the validation passes
C1_DryRunMutatesNothing ==
    [][(AtBackupRun /\ dry) => (dir' = dir /\ Mutations(last'.calls) = {})]_vars

\* a dry attempt that passed validation with a deletion due
C1_Witness ==
    /\ dry
    /\ last.dev # 0
    /\ last.needs
    /\ last.res = "ok"
    /\ last.count >= copies[last.dev]

\* the failed integrity check of the pass
FsckFailed == \E i \in 1..Len(trace) : trace[i] = Event("fsck", FALSE)

\* C2: when the integrity check is not skipped and fails, the pass mounts
\* nothing, runs Backup::run for no device and has returned Ok
C2_FsckFailureSkipsGroup ==
    FsckFailed =>
        /\ pc = "done"
        /\ ret = "ok"
        /\ trace[Len(trace)] = Event("fsck", FALSE)
        /\ \A i \in 1..Len(trace) : trace[i].call \notin {"mount", "backup"}
        /\ last = NoAttempt

\* a pass that ended on the failed integrity check
C2_Witness ==
    /\ FsckFailed
    /\ ~dst_filesystem[1].skip_fsck
    /\ pc = "done"
    /\ ret = "ok"

\* the calls of the pass after its successful mount
AfterMount ==
    LET m == CHOOSE i \in 1..Len(trace) : trace[i] = Event("mount", TRUE)
    IN SubSeq(trace, m + 1, Len(trace))

\* the positions of the calls named name in a sequence of calls
CallsOf(calls, name) == {i \in 1..Len(calls) : calls[i].call = name}

\* C3: in a pass that does not skip mounting and whose mount succeeded,
\* Filesystem::unmount is called after Backup::run has run for every device
\* of the group, never before or between them and never twice, and a pass
\* that has ended has called it exactly once
C3_UnmountOnceAfterAllDevices ==
    (~skip_mount /\ \E i \in 1..Len(trace) : trace[i] = Event("mount", TRUE)) =>
        LET unmounts == CallsOf(AfterMount, "unmount")
            backups == CallsOf(AfterMount, "backup")
        IN /\ Cardinality(unmounts) <= 1
           /\ \A u \in unmounts :
                 Cardinality({b \in backups : b < u}) = Len(backup_devices)
           /\ \A u \in unmounts : \A b \in backups : b < u
           /\ pc = "done" => Cardinality(unmounts) = 1

\* the entries of the directory that a step removes
Gone == {i \in 1..Len(dir) : \A j \in 1..Len(dir') : dir'[j].name # dir[i].name}

\* the files of device d the directory holds, by the suffix pattern
CountOf(d) == Len(Matching(dir, Suffix[d]))

\* a step of the loop that is a device attempt, not dry, whose presence
\* check passes
PresencePassed == AtBackupRun /\ ~dry /\ mountpoint # None /\ ~target_file_is_present(idx)

C5_OldestIsDeleted ==
    [][AtBackupRun =>
          \A g \in Gone :
              /\ Contains(dir[g].name, Suffix[idx])
              /\ \A j \in 1..Len(dir) :
                    Contains(dir[j].name, Suffix[idx]) =>
                        /\ CreatedKey(dir[g]) <= CreatedKey(dir[j])
                        /\ j < g => CreatedKey(dir[g]) < CreatedKey(dir[j])]_vars

\* a deletion that chose among several matching files
C5_Witness ==
    /\ last.removed # <<>>
    /\ last.count >= 2

\* C6: once Backup::run has returned Ok for a device in a run that is not
\* dry, every further attempt for that device on the same day ends with the
\* "already present" error of the presence check, deletes no file and runs
\* no copy
C6_SameDayRunIsSkipped ==
    (last.dev # 0 /\ last.again) =>
        /\ last.res = "present"
        /\ last.removed = <<>>
        /\ ~last.wrote
        /\ Mutations(last.calls) = {}

\* C7: in an attempt that needed no deletion and obtained both the available
\* space and the size of the device, the attempt fails for insufficient
\* space exactly when the available space is at most the size, and then no
\* copy is run and no file is created
C7_InsufficientSpaceIffNotMore ==
    (last.dev # 0 /\ last.space # "none" /\ last.known) =>
        /\ (last.res = "short") <=> last.le
        /\ last.res = "short" => (~last.wrote /\ Mutations(last.calls) = {})

\* C8: an attempt that reaches the retention check performs the space
\* preflight if and only if the check finds no deletion is needed, dry or
\* not; an attempt that removes a file performs no space check, does not end
\* for insufficient space and goes on to the copy
C8_SpaceCheckIffNoDeletionNeeded ==
    [][(AtBackupRun /\ mountpoint # None /\ ~target_file_is_present(idx)) =>
          /\ (last'.space # "none")
                 <=> ~(last'.readable /\ CountOf(idx) >= copies[idx])
          /\ (last'.space # "none")
                 <=> (\E i \in 1..Len(last'.calls) : last'.calls[i] = "lsblk")
          /\ Gone # {} =>
                 /\ last'.space = "none"
                 /\ last'.res # "short"
                 /\ \E i \in 1..Len(last'.calls) : last'.calls[i] = "dd"]_vars

\* an attempt that removed a file and then copied, without a space check
C8_Witness ==
    /\ last.dev # 0
    /\ last.removed # <<>>
    /\ last.space = "none"
    /\ last.wrote
    /\ last.res = "ok"

\* C9: when the space preflight cannot obtain the available space or the
\* size of the device, the attempt only warns and proceeds to the copy step
C9_UnknownSpaceProceeds ==
    (last.dev # 0 /\ last.space # "none" /\ ~last.known) =>
        /\ last.space = "unknown"
        /\ last.res # "err"
        /\ dry \/ \E i \in 1..Len(last.calls) : last.calls[i] = "dd"

\* the enumerated filesystems that carry the UUID of the group
Carriers ==
    {i \in 1..Len(available_filesystems) : available_filesystems[i].uuid = Some(uuid)}

\* C10: once Backups::new has resolved the filesystem, it is absent without
\* an error when no enumerated device carries the UUID, bound to the device
\* when exactly one does, and a not-unique error when two or more do
C10_ResolutionByCount ==
    pc # "new" =>
        /\ Cardinality(Carriers) = 0 =>
              (pc = "done" /\ ret = "absent" /\ dst_filesystem = None)
        /\ Cardinality(Carriers) = 1 =>
              /\ pc = "start"
              /\ ret = "none"
              /\ dst_filesystem # None
              /\ \A i \in Carriers :
                    /\ dst_filesystem[1].blockdevice = available_filesystems[i]
                    /\ dst_filesystem[1].device_path
                          = <<"/dev", available_filesystems[i].name>>
        /\ Cardinality(Carriers) >= 2 =>
              (pc = "done" /\ ret = "new_err" /\ dst_filesystem = None)

\* a resolution that found two carriers of the UUID among three devices
C10_Witness ==
    /\ pc = "done"
    /\ ret = "new_err"
    /\ Cardinality(Carriers) = 2
    /\ Len(available_filesystems) = 3

\* the enumerated source devices that carry a serial
Sources(serial) ==
    {i \in 1..Len(available_devices) : available_devices[i].serial = Some(serial)}

\* the devices the group of the plan configures
Configured == plan.backups[1].backup_devices

\* C11: when the filesystem of the group resolves, Backups::new fails if a
\* configured device has several matches; otherwise it keeps exactly the
\* configured devices with one match, in the order of the configuration,
\* each bound to the device that carries its serial, dropping the others
C11_DevicesOfGroup ==
    (returned # None /\ Cardinality(Carriers) = 1) =>
        LET r == returned[1] IN
        IF \E i \in 1..Len(Configured) : Cardinality(Sources(Configured[i].serial)) >= 2
        THEN r.res = "err" /\ r.backup_devices = <<>>
        ELSE /\ r.res = "ok"
             /\ [i \in 1..Len(r.backup_devices) |-> r.backup_devices[i].serial]
                   = SelectSeq([i \in 1..Len(Configured) |-> Configured[i].serial],
                               LAMBDA x : Cardinality(Sources(x)) = 1)
             /\ \A i \in 1..Len(r.backup_devices) :
                   r.backup_devices[i].blockdevice.serial
                       = Some(r.backup_devices[i].serial)

\* a group of two devices of which one is attached and one is not
C11_Witness ==
    /\ returned # None
    /\ returned[1].res = "ok"
    /\ Len(Configured) = 2
    /\ Len(returned[1].backup_devices) = 1

\* the groups of the plan handed to validate_config
Groups == plan.val[1].backups

\* two groups of the plan share a UUID
SharedUuid == \E i, j \in 1..Len(Groups) : i # j /\ Groups[i].uuid = Groups[j].uuid

\* two devices of one group share a serial
SharedSerialInGroup ==
    \E g \in 1..Len(Groups) : \E i, j \in 1..Len(Groups[g].backup_devices) :
        i # j /\ Groups[g].backup_devices[i].serial = Groups[g].backup_devices[j].serial

\* two devices of different groups share a serial
SharedSerialAcrossGroups ==
    \E g, h \in 1..Len(Groups) :
        /\ g # h
        /\ \E i \in 1..Len(Groups[g].backup_devices) :
             \E j \in 1..Len(Groups[h].backup_devices) :
                Groups[g].backup_devices[i].serial = Groups[h].backup_devices[j].serial

\* a device of the plan declares a retention count of 0
ZeroCopies ==
    \E g \in 1..Len(Groups) : \E i \in 1..Len(Groups[g].backup_devices) :
        Groups[g].backup_devices[i].copies = Some(0)

\* C12: validate_config rejects every plan in which two groups share a UUID
\* or two devices of one group share a serial, and a serial shared by
\* devices of different groups does not make it reject a plan
C12_DuplicatesRejected ==
    (returned # None /\ plan.ok) =>
        /\ (SharedUuid \/ SharedSerialInGroup) => ~returned[1].ok
        /\ (SharedSerialAcrossGroups /\ ~SharedUuid /\ ~SharedSerialInGroup /\ ~ZeroCopies)
              => returned[1].ok

\* an accepted plan whose two groups configure the same serial
C12_Witness ==
    /\ returned # None
    /\ plan.ok
    /\ SharedSerialAcrossGroups
    /\ returned[1].ok

\* C13: of a plan with distinct UUIDs and distinct serials in every group,
\* validate_config returns the plan itself if no device declares a retention
\* count of 0, and an error if one does
C13_ZeroCopiesRejected ==
    (returned # None /\ plan.ok /\ ~SharedUuid /\ ~SharedSerialInGroup) =>
        /\ returned[1].ok <=> ~ZeroCopies
        /\ returned[1].ok => returned[1].val = plan.val

\* an accepted plan with an absent retention count and a count of 1
C13_Witness ==
    /\ returned # None
    /\ plan.ok
    /\ returned[1].ok
    /\ \E g \in 1..Len(Groups) : \E i, j \in 1..Len(Groups[g].backup_devices) :
          /\ Groups[g].backup_devices[i].copies = None
          /\ Groups[g].backup_devices[j].copies = Some(1)

\* the path p names the mount point or something below it
AtOrBelowMountPoint(p) ==
    LET c == Components(p)
        m == Components(mountpoint[1])
    IN /\ Len(c) >= Len(m)
       /\ SubSeq(c, 1, Len(m)) = m
       /\ \A i \in 1..Len(c) : c[i] # ParentDir

\* C14: for every mount point and every destination subpath, with ".." and
\* "." segments or without, the destination directory and the destination
\* file that Backup computes lie at or below the mount point
C14_PathsBelowMountPoint ==
    returned # None =>
        /\ AtOrBelowMountPoint(returned[1].dir)
        /\ AtOrBelowMountPoint(returned[1].file)

\* the ways Backup::run fails for one device
DeviceFailures == {"present", "evict_err", "short", "err", "dd_err", "chown_err"}

\* C15: a failed Backup::run for one device leaves the loop of Backups::run
\* running with the next device and decides nothing about what the pass
\* returns; the pass that leaves the loop has called Backup::run for every
\* device, and returns an error only for its own failed unmount; chown is only
\* run directly after a dd that succeeded
C15_DeviceFailureIsLocal ==
    [][/\ AtBackupRun =>
            /\ last'.res \in DeviceFailures =>
                  (pc' = "loop" /\ idx' = idx + 1 /\ ret' = ret)
            /\ \A i \in 1..Len(last'.calls) :
                  last'.calls[i] = "chown" =>
                      /\ i > 1
                      /\ last'.calls[i - 1] = "dd"
                      /\ last'.wrote
                      /\ last'.res \in {"ok", "chown_err"}
       /\ (pc = "loop" /\ pc' = "done" /\ ret' # "panic") =>
            /\ Cardinality(CallsOf(trace, "backup")) = Len(backup_devices)
            /\ ret' = "err" =>
                  /\ ~skip_mount
                  /\ trace'[Len(trace')].call \in {"unmount", "sync", "umount"}
                  /\ ~trace'[Len(trace')].ok]_vars

\* a pass that returned Ok although Backup::run failed for its first device
C15_Witness ==
    /\ pc = "done"
    /\ ret = "ok"
    /\ \E i, j \in 1..Len(trace) :
          /\ i < j
          /\ trace[i] = Event("backup", FALSE)
          /\ trace[j].call = "backup"

\* C16: a run for a device that is not dry and starts with at most the
\* retention count of files matching the suffix of the device ends with at
\* most the retention count of them, whether its copy succeeds or fails; so
\* the count stays bounded over every sequence of such runs
C16_RetentionBound ==
    [][(AtBackupRun /\ ~dry /\ CountOf(idx) <= copies[idx]) =>
          Len(Matching(dir', Suffix[idx])) <= copies[idx]]_vars

\* the names of the files Backup::run writes for device d, over all days
WrittenFor(d) == {FileName[d, t] : t \in OldDays \cup (1..MaxDay)}

\* the files of the directory that were written for device d
OwnFiles(d) == {i \in 1..Len(dir) : dir[i].name \in WrittenFor(d)}

\* C17: a device attempt whose presence check passed counts exactly the
\* files that were written for its own device, and every file it deletes is
\* one that was written for its own device
C17_OwnBackupsOnly ==
    [][PresencePassed =>
          /\ CountOf(idx) = Cardinality(OwnFiles(idx))
          /\ \A i \in Gone : i \in OwnFiles(idx)]_vars

\* the calls of Backup::run the pass has made
Attempts == CallsOf(trace, "backup")

\* C18: no pass ends in a panic, and a pass that has entered the loop over
\* the devices and has ended has called Backup::run for every device of the
\* group, whatever failed in between
C18_NoFailureAbortsTheRun ==
    /\ ret # "panic"
    /\ (pc = "done" /\ Attempts # {}) => Cardinality(Attempts) = Len(backup_devices)

\* the decisions Backup::validate_state takes for device e from the state of
\* the destination: today's file is present, an eviction is needed (and with
\* it whether the space check is performed)
Decisions(e) == << target_file_is_present(e), needs_deletion(e, TRUE) >>

\* C19: a dry pass leaves the destination as it found it, so it decides for
\* every device in the state the pass started from; a real pass decides the
\* same if no real device attempt changes the decisions of the devices that
\* follow it in the group
C19_RealRunDecidesAsDryRun ==
    [][(AtBackupRun /\ ~dry) =>
          \A e \in DevIds : e > idx => Decisions(e)' = Decisions(e)]_vars

\* the enumeration of the pass listed the destination as mounted
StartedMounted ==
    \E i \in 1..Len(available_filesystems) :
        /\ available_filesystems[i].uuid = Some(uuid)
        /\ available_filesystems[i].mountpoint # None

\* C20: in a pass that does not skip mounting, the integrity check is only
\* reached with the filesystem unmounted; a pass that found the filesystem
\* mounted has called Filesystem::unmount first, with success, before it
\* goes on; and a pass whose first call, that unmount, failed has ended with
\* an error without integrity check, mount or Backup::run
C20_UnmountedBeforeFsck ==
    ~skip_mount =>
        /\ pc = "fsck" => (mounted = None /\ ~is_mounted(dst_filesystem[1]))
        /\ (pc \in {"fsck", "mount", "loop"} /\ StartedMounted) =>
               trace[1] = Event("unmount", TRUE)
        /\ (trace # <<>> /\ trace[1] = Event("unmount", FALSE)) =>
               /\ pc = "done"
               /\ ret = "err"
               /\ CallsOf(trace, "fsck") = {}
               /\ CallsOf(trace, "mount") = {}
               /\ Attempts = {}

\* a pass that found the filesystem mounted, unmounted it and then ran the
\* integrity check
C20_Witness ==
    /\ ~skip_mount
    /\ StartedMounted
    /\ trace # <<>>
    /\ trace[1] = Event("unmount", TRUE)
    /\ CallsOf(trace, "fsck") # {}

\* the entries of the enumeration of available_space with the UUID
Listed ==
    {i \in 1..Len(available_filesystems) :
        available_filesystems[i].uuid = dst_filesystem[1].blockdevice.uuid}

\* C21: the figure the space preflight obtained is the one the enumeration
\* made inside available_space reports for the filesystem, converted to
\* bytes, whatever figure the filesystem was resolved with
C21_FreshAvailableSpace ==
    (pc = "done" /\ returned[1].available.res = "ok") =>
        /\ Listed # {}
        /\ \A i \in Listed :
              returned[1].available.val = fsavail_bytes(available_filesystems[i].fsavail)

\* a preflight whose figure differs from the one of the resolution
C21_Witness ==
    /\ pc = "done"
    /\ returned[1].available.res = "ok"
    /\ dst_filesystem[1].fsavail = Some(1)
    /\ returned[1].available.val = Some(2)

\* C22: whenever the loop of Backups::run is about to call Backup::run, the
\* resolved filesystem has a mount point
C22_MountPointSetAtBackupRun ==
    AtBackupRun => mountpoint # None

\* the order of the commands of a device attempt
StepOrder == << "rm", "lsblk", "dd", "chown" >>
StepOf(c) == CHOOSE i \in 1..Len(StepOrder) : StepOrder[i] = c

\* the commands the latest device attempt ran after its eviction
AfterEviction == {i \in 1..Len(last.calls) : last.calls[i] \in {"lsblk", "dd", "chown"}}

\* the latest device attempt, not dry, needed an eviction and removed nothing:
\* the directory could not be read or the file not be removed
FailedEviction == last.needs /\ ~dry /\ last.removed = <<>>

\* C23: the commands of a device attempt follow the order eviction, space
\* enumeration, copy, ownership change; an attempt that found today's file
\* runs none of them, a failed eviction is followed by none of the others, a
\* failed space check by no copy, a failed copy by no ownership change, and
\* an ownership change is only run in the attempts that copied
C23_StepsInOrder ==
    last.dev # 0 =>
        /\ \A i, j \in 1..Len(last.calls) :
              i < j => StepOf(last.calls[i]) < StepOf(last.calls[j])
        /\ last.present => last.calls = <<>>
        /\ FailedEviction => (last.res = "evict_err" /\ AfterEviction = {})
        /\ last.res \in {"short", "err", "panic"} =>
              \A i \in AfterEviction : last.calls[i] = "lsblk"
        /\ last.res = "dd_err" => \A i \in AfterEviction : last.calls[i] # "chown"
        /\ (\E i \in AfterEviction : last.calls[i] = "chown") =>
              (\E i \in AfterEviction : last.calls[i] = "dd")

\* an attempt whose file removal failed
C23_Witness ==
    /\ last.dev # 0
    /\ FailedEviction
    /\ last.calls = << "rm" >>

\* the events the step appends to the calls made so far
NewEvents == SubSeq(trace', Len(trace) + 1, Len(trace'))

\* the step is a call of Filesystem::unmount
UnmountStep == Len(trace') > Len(trace) /\ trace'[Len(trace) + 1].call = "unmount"

\* C24: in a call of Filesystem::unmount every umount directly follows a
\* flush that succeeded; a call on a filesystem without tracked mount point
\* runs no command at all, and a call without tracked mount point or whose
\* flush failed runs no umount and leaves the filesystem as tracked before
C24_FlushBeforeUmount ==
    [][UnmountStep =>
          /\ \A i \in 1..Len(NewEvents) :
                NewEvents[i].call = "umount" =>
                    (i > 1 /\ NewEvents[i - 1] = Event("sync", TRUE))
          /\ mountpoint = None => Len(NewEvents) = 1
          /\ (mountpoint = None \/ \E i \in 1..Len(NewEvents) :
                                      NewEvents[i] = Event("sync", FALSE)) =>
                /\ \A i \in 1..Len(NewEvents) : NewEvents[i].call # "umount"
                /\ dst_filesystem' = dst_filesystem
                /\ returned' = Some(FALSE)]_vars

\* an unmount whose flush failed, and one on a filesystem that is not
\* tracked as mounted
C24_Witness ==
    /\ Len(trace) >= 3
    /\ trace[Len(trace)] = Event("sync", FALSE)
    /\ trace[1] = Event("unmount", FALSE)
    /\ trace[2].call = "mount"

\* the pass has run Backups::run to its end
RunEnded == pc = "done" /\ ret \in {"ok", "err", "panic"}

\* C25: a pass that does not skip mounting and has run Backups::run leaves
\* the filesystem mounted, for the program or for the operating system, only
\* when Backups::run returned an error; after Ok it is unmounted
C25_MountedOnlyAfterError ==
    (RunEnded /\ ~skip_mount /\ (mounted # None \/ is_mounted(dst_filesystem[1]))) =>
        ret = "err"

\* the calls that change or prepare a change of the mount state
MountCalls == {"mount", "unmount", "sync", "umount"}

\* C26: in a pass that skips mounting no step calls mount, unmount, sync or
\* umount, and every step leaves the mount state as it was, for the
\* operating system and in the resolved filesystem
C26_SkipMountTouchesNoMount ==
    [][skip_mount =>
          /\ \A i \in 1..Len(trace') : trace'[i].call \notin MountCalls
          /\ mounted' = mounted
          /\ (dst_filesystem # None /\ dst_filesystem' # None) =>
                mountpoint' = mountpoint]_vars

\* a pass that skipped mounting on a mounted filesystem, attempted the
\* devices and returned Ok
C26_Witness ==
    /\ skip_mount
    /\ StartedMounted
    /\ pc = "done"
    /\ ret = "ok"
    /\ Attempts # {}

\* the pass holds a failed mount
MountFailed == \E i \in 1..Len(trace) : trace[i] = Event("mount", FALSE)

\* C27: the step in which the mount fails ends the pass with an error and
\* leaves the destination directory as it was; the failed mount stays the
\* last call of the pass, which holds no Backup::run, and the filesystem is
\* unmounted for the program and for the operating system
C27_FailedMountEndsGroup ==
    [][MountFailed' =>
          /\ pc' = "done"
          /\ ret' = "err"
          /\ trace'[Len(trace')] = Event("mount", FALSE)
          /\ Attempts' = {}
          /\ dir' = dir
          /\ mountpoint' = None
          /\ mounted' = None]_vars

\* a pass whose mount failed after the initial unmount and the integrity
\* check, with backups in the destination
C27_Witness ==
    /\ MountFailed
    /\ StartedMounted
    /\ CallsOf(trace, "fsck") # {}
    /\ dir # <<>>

\* the method call a step of mount or unmount makes
MethodCall == trace'[Len(trace) + 1]

\* C28: a call of mount that succeeds sets the tracked mount point to the
\* mount path, a call of unmount that succeeds clears it, a call that fails
\* leaves it as it was, the tracked mount point changes in no other step, and
\* after a call that succeeded it is where the operating system has the
\* filesystem mounted
C28_TrackedMountPoint ==
    [][/\ Len(trace') > Len(trace) =>
              /\ MethodCall.call \in {"mount", "unmount"}
              /\ MethodCall = Event("mount", TRUE) =>
                    mountpoint' = Some(dst_filesystem[1].mountpath)
              /\ MethodCall = Event("unmount", TRUE) => mountpoint' = None
              /\ ~MethodCall.ok => mountpoint' = mountpoint
              /\ MethodCall.ok => mounted' = mountpoint'
       /\ Len(trace') = Len(trace) => mountpoint' = mountpoint]_vars

\* a failed mount after a mount and an unmount that succeeded
C28_Witness ==
    /\ Len(trace) >= 3
    /\ \E i, j \in 1..Len(trace) :
          /\ i < j
          /\ trace[i] = Event("mount", TRUE)
          /\ trace[j] = Event("unmount", TRUE)
    /\ trace[Len(trace)] = Event("mount", FALSE)

\* C29: for every available space and needed size the preflight obtained,
\* the comparison decides that the space is enough when the available space
\* is more than the needed size, and that it is not enough otherwise
C29_EnoughIffAvailableExceedsNeeded ==
    (/\ pc = "done"
     /\ returned[1].available.res = "ok" /\ returned[1].available.val # None
     /\ returned[1].needed.res = "ok" /\ returned[1].needed.val # None) =>
        returned[1].outcome.space =
            IF returned[1].available.val[1] > returned[1].needed.val[1]
            THEN "enough" ELSE "short"

\* C30: a device attempt that is not dry leaves at least one backup of
\* every device that had one before the attempt
C30_LastBackupSurvives ==
    [][(AtBackupRun /\ ~dry) =>
          \A d \in DevIds : OwnFiles(d) # {} => OwnFiles(d)' # {}]_vars

\* C31: the count of matching files can only come down to the retention
\* count through the successful runs, and what a successful run does to the
\* count depends on the directory alone, not on the day: so every successful
\* run that is not dry and starts with more matching files than the retention
\* count of its device ends with fewer of them
C31_SuccessfulRunReducesExcess ==
    [][(AtBackupRun /\ ~dry /\ CountOf(idx) > copies[idx] /\ last'.res = "ok") =>
          Len(Matching(dir', Suffix[idx])) < CountOf(idx)]_vars

\* the copy of the first run of the day completed: its dd succeeded
FirstCopyCompleted == returned[1].res \in {"ok", "chown_err"}

\* C32: the second run of the day skips the device as already backed up
\* only if the copy of the first run completed; after a first run whose dd
\* failed it goes past the presence check
C32_SkippedOnlyAfterCompletedCopy ==
    (pc = "done" /\ last.present) => FirstCopyCompleted

====
